---- MODULE Spec2Model ----
(***************************************************************************)
(* Model of the Song-Recommender pipeline.                                 *)
(*                                                                         *)
(*   build_index.py  load_vectors / main : the embedding-and-index build   *)
(*                   and the way it saves its artifacts into MODELS_DIR    *)
(*   extract.py      main : the scan of the .h5 files into two CSV files   *)
(*   ingest.py       main : the load of the two CSV files into the tables  *)
(*                                                                         *)
(* Numbers.  A raw feature is an integer.  StandardScaler turns x[i][j]    *)
(* into (x[i][j] - mean_j) / std_j, which is exactly                       *)
(*        (n*x[i][j] - S_j) / sqrt(n*Q_j - S_j^2)                          *)
(* with S_j the column sum and Q_j the column sum of squares (and 0 when   *)
(* the column is constant, where sklearn uses scale 1).  A standardized    *)
(* entry is kept as that pair [num, var].  The PCA projection and the L2   *)
(* normalisation are linear / positive rescalings: an embedding row keeps  *)
(* the standardized row it was computed from, its width, and which of the  *)
(* two transforms were applied to it.  A row computed from the zero        *)
(* vector is the zero vector after either of them.                         *)
(***************************************************************************)
EXTENDS Integers, Sequences, FiniteSets, TLC

\* ---------------------------------------------------------------- bounds
\* rows in song_features
MaxRows == 2
\* runs of build_index.py main into the same MODELS_DIR
MaxBuilds == 2

\* ------------------------------------------------------------- constants
PCA_COMPONENTS == 64

None == "None"
TrackIds == <<"TRA", "TRB", "TRC", "TRD">>
\* the feature arrays a song_features row may hold
FeatureVectors == {<<>>, <<1>>, <<1, 0>>, <<0, 1>>}
\* the values of the module-level settings USE_PCA, PCA_COMPONENTS of a run
Configs ==
    { [use_pca |-> u, requested |-> r] : u \in BOOLEAN, r \in {1, PCA_COMPONENTS} }

NoneFeatures == [isNone |-> TRUE, v |-> <<>>]
Features(v) == [isNone |-> FALSE, v |-> v]

\* the rows the table may hold at position i: track ids are unique
RowKinds(i) ==
    {[tid |-> None, features |-> Features(<<1>>)]}
      \cup {[tid |-> TrackIds[i], features |-> NoneFeatures]}
      \cup {[tid |-> TrackIds[i], features |-> Features(v)] : v \in FeatureVectors}

Tables ==
    UNION { {t \in [1..n -> UNION {RowKinds(i) : i \in 1..n}] :
                \A i \in 1..n : t[i] \in RowKinds(i)} : n \in 0..MaxRows }

Min(a, b) == IF a <= b THEN a ELSE b

RECURSIVE SumTo(_, _)
SumTo(f, n) == IF n = 0 THEN 0 ELSE f[n] + SumTo(f, n - 1)

\* -------------------------------------------------------- load_vectors
\* the loop of load_vectors: the rows with a tid and a features array
RECURSIVE KeptRows(_)
KeptRows(rs) ==
    IF rs = <<>> THEN <<>>
    ELSE LET r == Head(rs) IN
         IF r.tid = None \/ r.features.isNone
         THEN KeptRows(Tail(rs))
         ELSE <<r>> \o KeptRows(Tail(rs))

\* load_vectors with a fault: the id is appended before the features are looked at
LoadedIds_BeforeFeatureCheck(rs) ==
    LET k == SelectSeq(rs, LAMBDA r : r.tid # None) IN [i \in 1..Len(k) |-> k[i].tid]

LoadedIds(rs) == [i \in 1..Len(KeptRows(rs)) |-> KeptRows(rs)[i].tid]
LoadedX(rs) == [i \in 1..Len(KeptRows(rs)) |-> KeptRows(rs)[i].features.v]

\* np.vstack with a fault: the lengths of the arrays are not compared
VStackOk_NoDimCheck(X) == Len(X) >= 1

\* np.vstack raises on an empty list and on arrays of different lengths
VStackOk(X) ==
    /\ Len(X) >= 1
    /\ \A i \in 1..Len(X) : Len(X[i]) = Len(X[1])

\* ------------------------------------------------------ StandardScaler
ColSum(X, j) == SumTo([i \in 1..Len(X) |-> X[i][j]], Len(X))
ColSq(X, j) == SumTo([i \in 1..Len(X) |-> X[i][j] * X[i][j]], Len(X))

ScalerFit(X) ==
    LET n == Len(X)
        d == Len(X[1])
    IN [n |-> n, d |-> d,
        sum |-> [j \in 1..d |-> ColSum(X, j)],
        var |-> [j \in 1..d |-> n * ColSq(X, j) - ColSum(X, j) * ColSum(X, j)]]

ScalerTransform(sc, x) ==
    [j \in 1..sc.d |-> [num |-> sc.n * x[j] - sc.sum[j], var |-> sc.var[j]]]

FitTransform(X) == [i \in 1..Len(X) |-> ScalerTransform(ScalerFit(X), X[i])]

\* ------------------------------------------------------------- PCA
NComponents(c, d) == Min(c.requested, d)

\* PCA.fit accepts 0 <= n_components <= min(n_samples, n_features)
PcaFitOk(k, n, d) == 0 <= k /\ k <= Min(n, d)

EmbRow(v, w, red, nrm) ==
    [v |-> v, width |-> w, reduced |-> red, normalized |-> nrm]

Unreduced(Xs) == [i \in 1..Len(Xs) |-> EmbRow(Xs[i], Len(Xs[i]), FALSE, FALSE)]
PcaTransform(Xs, k) == [i \in 1..Len(Xs) |-> EmbRow(Xs[i], k, TRUE, FALSE)]

\* -------------------------------------------------------- normalize
\* sklearn.preprocessing.normalize divides each row by its norm and leaves
\* a row of norm 0 as it is
NormalizeRow(r) == [r EXCEPT !.normalized = TRUE]
Normalize(E) == [i \in 1..Len(E) |-> NormalizeRow(E[i])]

IsZeroRow(r) == \A j \in 1..Len(r.v) : r.v[j].num = 0 \/ r.v[j].var = 0
\* squared Euclidean norm of a row that went through normalize
NormSq(r) == IF IsZeroRow(r) THEN 0 ELSE 1

\* ------------------------------------------------- artifacts in MODELS_DIR
FileNames ==
    {"scaler.pkl", "pca.pkl", "knn.pkl", "track_ids.npy", "embeddings.npy", "config.json"}

Absent == [gen |-> -1, data |-> [absent |-> TRUE]]
File(g, data) == [gen |-> g, data |-> data]
EmptyDir == [f \in FileNames |-> Absent]

Unset == [unset |-> TRUE]
PcaOf(k, d) == [n_components |-> k, d |-> d]
KnnOf(E) == [metric |-> "cosine", algorithm |-> "brute", fit_X |-> E]

\* the dict written to config.json
ConfigOf(n, d, c, E) ==
    [n_songs |-> n, raw_dim |-> d, use_pca |-> c.use_pca,
     pca_components_requested |-> c.requested, final_dim |-> E[1].width]

\* what one complete run of main leaves in an empty MODELS_DIR
ArtifactSet(rs, c, g) ==
    LET X0 == LoadedX(rs)
        n == Len(X0)
        d == Len(X0[1])
        Xs == FitTransform(X0)
        k == NComponents(c, d)
        E == Normalize(IF c.use_pca THEN PcaTransform(Xs, k) ELSE Unreduced(Xs))
    IN [f \in FileNames |->
         CASE f = "scaler.pkl" -> File(g, ScalerFit(X0))
           [] f = "pca.pkl" -> IF c.use_pca THEN File(g, PcaOf(k, d)) ELSE Absent
           [] f = "knn.pkl" -> File(g, KnnOf(E))
           [] f = "track_ids.npy" -> File(g, [ids |-> LoadedIds(rs)])
           [] f = "embeddings.npy" -> File(g, [rows |-> E])
           [] f = "config.json" -> File(g, ConfigOf(n, d, c, E))]

\* the artifact set an earlier run published, before the runs of this model
PriorRows ==
    <<[tid |-> "TRC", features |-> Features(<<1, 0>>)],
      [tid |-> "TRD", features |-> Features(<<0, 1>>)]>>
PriorConfig == [use_pca |-> TRUE, requested |-> PCA_COMPONENTS]
PriorSet == ArtifactSet(PriorRows, PriorConfig, 0)

\* ------------------------------------------------------------------ state
VARIABLES
    rows,       \* the song_features table
    files,      \* MODELS_DIR: file name -> content
    before,     \* MODELS_DIR as it was when the current run started
    gen,        \* number of runs of main started so far
    cfg,        \* USE_PCA, PCA_COMPONENTS of the current run
    pc,         \* position of the current run in main
    err,        \* the exception that ended the run, "" if none
    track_ids, X, X_scaled, scaler, pca, X_emb, nn,  \* locals of main
    result,     \* what the last query of the saved index returned
    \* extract.py main
    h5_files,   \* the .h5 files DATA_ROOT.rglob yields, in order
    epc,        \* position in main
    visited,    \* number of files the loop has taken
    processed, skipped, seen_ids,
    temp_tracks, temp_features,   \* rows of the two temporary CSV files
    out_tracks, out_features,     \* rows of data/tracks.csv, data/features.csv
    \* ingest.py main
    tracks_csv, features_csv,     \* rows of the two CSV files main reads
    chunk_size,                   \* CHUNK_SIZE of the run
    db,         \* the committed tables songs and song_features
    db0,        \* the committed tables when the run started
    tx,         \* the tables as the open transaction sees them
    ipc,        \* position in main
    song_rows, feat_rows,         \* the rows main built for the two tables
    sent        \* chunks the current upsert loop has executed

buildVars ==
    <<rows, files, before, gen, cfg, pc, err, track_ids, X, X_scaled, scaler, pca, X_emb, nn>>

queryVars == <<result>>
extractVars ==
    <<h5_files, epc, visited, processed, skipped, seen_ids, temp_tracks, temp_features,
      out_tracks, out_features>>

ingestVars ==
    <<tracks_csv, features_csv, chunk_size, db, db0, tx, ipc, song_rows, feat_rows, sent>>

Resting == {"idle", "done", "aborted", "crashed"}
Running ==
    {"load", "standardize", "reduce", "normalize", "knn", "save_scaler", "save_pca",
     "save_knn", "save_ids", "save_emb", "save_config"}

BuildInit ==
    /\ rows \in Tables
    /\ files \in {EmptyDir, PriorSet}
    /\ before = files
    /\ gen = 0
    /\ cfg = PriorConfig
    /\ pc = "idle"
    /\ err = ""
    /\ track_ids = <<>>
    /\ X = <<>>
    /\ X_scaled = <<>>
    /\ scaler = Unset
    /\ pca = Unset
    /\ X_emb = <<>>
    /\ nn = Unset

\* python build_index.py: a run starts with the settings of the module
StartBuild(c) ==
    /\ pc \in Resting
    /\ gen < MaxBuilds
    /\ gen' = gen + 1
    /\ cfg' = c
    /\ before' = files
    /\ pc' = "load"
    /\ err' = ""
    /\ track_ids' = <<>>
    /\ X' = <<>>
    /\ X_scaled' = <<>>
    /\ scaler' = Unset
    /\ pca' = Unset
    /\ X_emb' = <<>>
    /\ nn' = Unset
    /\ UNCHANGED <<rows, files>>
    /\ UNCHANGED <<queryVars, extractVars, ingestVars>>

Raise(e) == pc' = "aborted" /\ err' = e

\* track_ids, X = load_vectors()
LoadVectors ==
    /\ pc = "load"
    /\ IF VStackOk(LoadedX(rows))
       THEN /\ track_ids' = LoadedIds(rows)
            /\ X' = LoadedX(rows)
            /\ pc' = "standardize"
            /\ err' = err
       ELSE /\ Raise("ValueError: vstack")
            /\ UNCHANGED <<track_ids, X>>
    /\ UNCHANGED <<rows, files, before, gen, cfg, X_scaled, scaler, pca, X_emb, nn>>
    /\ UNCHANGED <<queryVars, extractVars, ingestVars>>

\* scaler = StandardScaler(); X_scaled = scaler.fit_transform(X)
\* (check_array refuses an array with 0 features)
Standardize ==
    /\ pc = "standardize"
    /\ IF Len(X[1]) >= 1
       THEN /\ scaler' = ScalerFit(X)
            /\ X_scaled' = FitTransform(X)
            /\ pc' = "reduce"
            /\ err' = err
       ELSE /\ Raise("ValueError: 0 features")
            /\ UNCHANGED <<scaler, X_scaled>>
    /\ UNCHANGED <<rows, files, before, gen, cfg, track_ids, X, pca, X_emb, nn>>
    /\ UNCHANGED <<queryVars, extractVars, ingestVars>>

\* pca = None; X_emb = X_scaled; if USE_PCA: ... pca.fit_transform(X_scaled)
Reduce ==
    /\ pc = "reduce"
    /\ IF cfg.use_pca
       THEN LET k == NComponents(cfg, Len(X_scaled[1])) IN
            IF PcaFitOk(k, Len(X_scaled), Len(X_scaled[1]))
            THEN /\ pca' = PcaOf(k, Len(X_scaled[1]))
                 /\ X_emb' = PcaTransform(X_scaled, k)
                 /\ pc' = "normalize"
                 /\ err' = err
            ELSE /\ Raise("ValueError: n_components")
                 /\ UNCHANGED <<pca, X_emb>>
       ELSE /\ pca' = Unset
            /\ X_emb' = Unreduced(X_scaled)
            /\ pc' = "normalize"
            /\ err' = err
    /\ UNCHANGED <<rows, files, before, gen, cfg, track_ids, X, X_scaled, scaler, nn>>
    /\ UNCHANGED <<queryVars, extractVars, ingestVars>>

\* X_emb = normalize(X_emb, norm='l2')
NormalizeStep ==
    /\ pc = "normalize"
    /\ X_emb' = Normalize(X_emb)
    /\ pc' = "knn"
    /\ UNCHANGED <<rows, files, before, gen, cfg, err, track_ids, X, X_scaled, scaler, pca, nn>>
    /\ UNCHANGED <<queryVars, extractVars, ingestVars>>

\* nn = NearestNeighbors(metric, algorithm); nn.fit(X_emb)
FitKnn ==
    /\ pc = "knn"
    /\ nn' = KnnOf(X_emb)
    /\ pc' = "save_scaler"
    /\ UNCHANGED <<rows, files, before, gen, cfg, err, track_ids, X, X_scaled, scaler, pca, X_emb>>
    /\ UNCHANGED <<queryVars, extractVars, ingestVars>>

Write(f, data) == files' = [files EXCEPT ![f] = File(gen, data)]
inMemory == <<rows, before, gen, cfg, err, track_ids, X, X_scaled, scaler, pca, X_emb, nn>>

\* joblib.dump(scaler, MODELS_DIR / "scaler.pkl")
SaveScaler ==
    /\ pc = "save_scaler"
    /\ Write("scaler.pkl", scaler)
    /\ pc' = "save_pca"
    /\ UNCHANGED inMemory
    /\ UNCHANGED <<queryVars, extractVars, ingestVars>>

\* if pca is not None: joblib.dump(pca, MODELS_DIR / "pca.pkl")
SavePca ==
    /\ pc = "save_pca"
    /\ IF pca # Unset THEN Write("pca.pkl", pca) ELSE files' = files
    /\ pc' = "save_knn"
    /\ UNCHANGED inMemory
    /\ UNCHANGED <<queryVars, extractVars, ingestVars>>

\* joblib.dump(nn, MODELS_DIR / "knn.pkl")
SaveKnn ==
    /\ pc = "save_knn"
    /\ Write("knn.pkl", nn)
    /\ pc' = "save_ids"
    /\ UNCHANGED inMemory
    /\ UNCHANGED <<queryVars, extractVars, ingestVars>>

\* np.save(MODELS_DIR / "track_ids.npy", track_ids)
SaveTrackIds ==
    /\ pc = "save_ids"
    /\ Write("track_ids.npy", [ids |-> track_ids])
    /\ pc' = "save_emb"
    /\ UNCHANGED inMemory
    /\ UNCHANGED <<queryVars, extractVars, ingestVars>>

\* np.save(MODELS_DIR / "embeddings.npy", X_emb)
SaveEmbeddings ==
    /\ pc = "save_emb"
    /\ Write("embeddings.npy", [rows |-> X_emb])
    /\ pc' = "save_config"
    /\ UNCHANGED inMemory
    /\ UNCHANGED <<queryVars, extractVars, ingestVars>>

\* config = {...}; (MODELS_DIR / "config.json").write_text(json.dumps(config))
SaveConfig ==
    /\ pc = "save_config"
    /\ Write("config.json", ConfigOf(Len(X), Len(X[1]), cfg, X_emb))
    /\ pc' = "done"
    /\ UNCHANGED inMemory
    /\ UNCHANGED <<queryVars, extractVars, ingestVars>>

\* the process is killed while main runs
Crash ==
    /\ pc \in Running
    /\ pc' = "crashed"
    /\ UNCHANGED <<rows, files, before, gen, cfg, err, track_ids, X, X_scaled, scaler, pca, X_emb, nn>>
    /\ UNCHANGED <<queryVars, extractVars, ingestVars>>

BuildNext ==
    \/ \E c \in Configs : StartBuild(c)
    \/ LoadVectors
    \/ Standardize
    \/ Reduce
    \/ NormalizeStep
    \/ FitKnn
    \/ SaveScaler
    \/ SavePca
    \/ SaveKnn
    \/ SaveTrackIds
    \/ SaveEmbeddings
    \/ SaveConfig
    \/ Crash

\* ------------------------------------------------ querying the saved index
\* largest k a query asks for
MaxK == 3
\* cosine distances of a query to the stored rows, as ranks
Distances == {0, 1, 2}

NoResult == [error |-> "", items |-> <<>>, asked |-> -1]

\* brute-force kneighbors: argpartition on the k smallest distances, then
\* argsort of those; numpy leaves the order of equal distances open
KNeighbors(dist, k) ==
    LET n == Len(dist) IN
    {s \in [1..k -> 1..n] :
        /\ \A a, b \in 1..k : a < b => s[a] # s[b] /\ dist[s[a]] <= dist[s[b]]
        /\ \A j \in 1..n : (\A a \in 1..k : s[a] # j) => dist[j] >= dist[s[k]]}

\* nn.kneighbors(q, n_neighbors=k) on the saved index, indices mapped to the
\* saved track ids
Query(k, dist) ==
    /\ pc = "done"
    /\ LET fit_X == files["knn.pkl"].data.fit_X
           ids == files["track_ids.npy"].data.ids
       IN /\ Len(dist) = Len(fit_X)
          /\ \A i, j \in 1..Len(fit_X) : fit_X[i] = fit_X[j] => dist[i] = dist[j]
          /\ IF k <= 0
             THEN result' = [error |-> "ValueError: Expected n_neighbors > 0",
                             items |-> <<>>, asked |-> k]
             ELSE IF k > Len(fit_X)
             THEN result' = [error |-> "ValueError: Expected n_neighbors <= n_samples_fit",
                             items |-> <<>>, asked |-> k]
             ELSE \E s \in KNeighbors(dist, k) :
                    result' = [error |-> "",
                               items |-> [a \in 1..k |->
                                            [id |-> ids[s[a]], distance |-> dist[s[a]]]],
                               asked |-> k]
    /\ UNCHANGED <<buildVars, extractVars, ingestVars>>

QueryNext ==
    \/ BuildNext
    \/ \E k \in 0..MaxK : \E n \in 1..MaxRows : \E dist \in [1..n -> Distances] :
          Query(k, dist)

\* ---------------------------------------------------------- extract.py
\* .h5 files main visits in one run
MaxFiles == 3

\* what matters of an .h5 file: whether reading it raises, its
\* analysis/track_id ("" when missing) and the fields copied to the rows
H5Kinds ==
    {[corrupt |-> TRUE, track_id |-> "", title |-> "", tempo |-> ""]}
      \cup {[corrupt |-> FALSE, track_id |-> t, title |-> s, tempo |-> s]
              : t \in {"", "TRA", "TRB"}, s \in {"s1", "s2"}}

H5Inputs == UNION {[1..n -> H5Kinds] : n \in 0..MaxFiles}

NoCsv == [exists |-> FALSE, rows |-> <<>>]
Csv(rs) == [exists |-> TRUE, rows |-> rs]
OldTracks == Csv(<<[track_id |-> "TRB", title |-> "s2"]>>)
OldFeatures == Csv(<<[track_id |-> "TRB", tempo |-> "s2"]>>)

\* extract_one: raises, or (None, None) without a track id, or the two rows
ExtractOne(f) ==
    IF f.corrupt THEN [raised |-> TRUE, isNone |-> FALSE, tracks_row |-> <<>>, feats_row |-> <<>>]
    ELSE IF f.track_id = ""
    THEN [raised |-> FALSE, isNone |-> TRUE, tracks_row |-> <<>>, feats_row |-> <<>>]
    ELSE [raised |-> FALSE, isNone |-> FALSE,
          tracks_row |-> [track_id |-> f.track_id, title |-> f.title],
          feats_row |-> [track_id |-> f.track_id, tempo |-> f.tempo]]

\* the loop with a fault: the seen_ids test left out
IsDuplicate_Never(tid, seen) == FALSE

\* if tid in seen_ids
IsDuplicate(tid, seen) == tid \in seen

ExtractInit ==
    /\ h5_files \in H5Inputs
    /\ epc = "idle"
    /\ visited = 0
    /\ processed = 0
    /\ skipped = 0
    /\ seen_ids = {}
    /\ temp_tracks = NoCsv
    /\ temp_features = NoCsv
    /\ out_tracks \in {NoCsv, OldTracks}
    /\ out_features = IF out_tracks = NoCsv THEN NoCsv ELSE OldFeatures

\* main up to the loop: counters, seen_ids, the two temporary files and
\* their headers
ExtractStart ==
    /\ epc = "idle"
    /\ processed' = 0
    /\ skipped' = 0
    /\ seen_ids' = {}
    /\ temp_tracks' = Csv(<<>>)
    /\ temp_features' = Csv(<<>>)
    /\ epc' = "loop"
    /\ UNCHANGED <<h5_files, visited, out_tracks, out_features>>
    /\ UNCHANGED <<buildVars, queryVars, ingestVars>>

\* one iteration of: for h5_path in DATA_ROOT.rglob("*.h5")
VisitFile ==
    /\ epc = "loop"
    /\ visited < Len(h5_files)
    /\ visited' = visited + 1
    /\ LET r == ExtractOne(h5_files[visited + 1]) IN
       IF r.raised \/ r.isNone
       THEN /\ skipped' = skipped + 1
            /\ UNCHANGED <<processed, seen_ids, temp_tracks, temp_features>>
       ELSE IF IsDuplicate(r.tracks_row.track_id, seen_ids)
       THEN /\ skipped' = skipped + 1
            /\ UNCHANGED <<processed, seen_ids, temp_tracks, temp_features>>
       ELSE /\ seen_ids' = seen_ids \cup {r.tracks_row.track_id}
            /\ temp_tracks' = Csv(Append(temp_tracks.rows, r.tracks_row))
            /\ temp_features' = Csv(Append(temp_features.rows, r.feats_row))
            /\ processed' = processed + 1
            /\ skipped' = skipped
    /\ UNCHANGED <<h5_files, epc, out_tracks, out_features>>
    /\ UNCHANGED <<buildVars, queryVars, ingestVars>>

\* after the loop: unlink the old outputs, move the temporary files over
Publish ==
    /\ epc = "loop"
    /\ visited = Len(h5_files)
    /\ out_tracks' = temp_tracks
    /\ out_features' = temp_features
    /\ temp_tracks' = NoCsv
    /\ temp_features' = NoCsv
    /\ epc' = "published"
    /\ UNCHANGED <<h5_files, visited, processed, skipped, seen_ids>>
    /\ UNCHANGED <<buildVars, queryVars, ingestVars>>

ExtractNext ==
    \/ ExtractStart
    \/ VisitFile
    \/ Publish

\* ----------------------------------------------------------- ingest.py
\* rows in tracks.csv and in features.csv
MaxCsvRows == 2

CHUNK_SIZE == 5000
\* the values of the module-level setting CHUNK_SIZE of a run: the small ones
\* give a run several chunks
ChunkSizes == {1, 2, CHUNK_SIZE}

TrackCsvRows == {[track_id |-> t, title |-> s] : t \in {"TRA", "TRB"}, s \in {"s1", "s2"}}
\* isnan: a vector column that pd.to_numeric could not read
FeatureCsvRows ==
    {[track_id |-> t, tempo |-> 1, isnan |-> b] : t \in {"TRA", "TRB"}, b \in BOOLEAN}
TrackCsvs == UNION {[1..n -> TrackCsvRows] : n \in 0..MaxCsvRows}
FeatureCsvs == UNION {[1..n -> FeatureCsvRows] : n \in 0..MaxCsvRows}

\* tracks.merge(features[...], on="track_id", how="inner"): for every row of
\* tracks, in order, its matches in features, in order
JoinRow(t, fs) ==
    LET m == SelectSeq(fs, LAMBDA f : f.track_id = t.track_id)
    IN [i \in 1..Len(m) |->
          [track_id |-> t.track_id, title |-> t.title, tempo |-> m[i].tempo,
           isnan |-> m[i].isnan]]
RECURSIVE Merge(_, _)
Merge(ts, fs) ==
    IF ts = <<>> THEN <<>> ELSE JoinRow(Head(ts), fs) \o Merge(Tail(ts), fs)

\* merged.dropna(subset=VECTOR_COLS)
DropNa(m) == SelectSeq(m, LAMBDA r : ~r.isnan)

\* merged.drop_duplicates(subset=["track_id"]): the first row of each id
RECURSIVE DropDuplicatesFrom(_, _, _)
DropDuplicatesFrom(m, i, seen) ==
    IF i > Len(m) THEN <<>>
    ELSE IF m[i].track_id \in seen THEN DropDuplicatesFrom(m, i + 1, seen)
    ELSE <<m[i]>> \o DropDuplicatesFrom(m, i + 1, seen \cup {m[i].track_id})
DropDuplicates(m) == DropDuplicatesFrom(m, 1, {})

Merged(ts, fs) == DropDuplicates(DropNa(Merge(ts, fs)))
SongRows(m) == [i \in 1..Len(m) |-> [track_id |-> m[i].track_id, title |-> m[i].title]]
FeatRows(m) == [i \in 1..Len(m) |-> [track_id |-> m[i].track_id, features |-> <<m[i].tempo>>]]

\* chunker(rows, size): rows[i:i + size] for i in range(0, len(rows), size)
NumChunks(rs, size) == (Len(rs) + size - 1) \div size
Chunker(rs, size) ==
    [c \in 1..NumChunks(rs, size) |->
        SubSeq(rs, (c - 1) * size + 1, Min(c * size, Len(rs)))]

\* INSERT ... ON CONFLICT (track_id) DO UPDATE, row after row of the chunk
UpsertRow(table, r) == {x \in table : x.track_id # r.track_id} \cup {r}
RECURSIVE Upsert(_, _)
Upsert(table, chunk) ==
    IF chunk = <<>> THEN table ELSE Upsert(UpsertRow(table, Head(chunk)), Tail(chunk))

\* TRUNCATE songs CASCADE: songs and song_features, which references songs
\* (schema.sql)
TruncateCascade(d) == [songs |-> {}, song_features |-> {}]

EmptyDb == [songs |-> {}, song_features |-> {}]
OldDb ==
    [songs |-> {[track_id |-> "TRA", title |-> "old"], [track_id |-> "TRC", title |-> "old"]},
     song_features |-> {[track_id |-> "TRA", features |-> <<0>>],
                        [track_id |-> "TRC", features |-> <<0>>]}]

\* ENGINE.begin() with a fault: every statement is committed on its own
AfterFailure_Autocommit(committed, seen) == seen

\* with ENGINE.begin() as conn: an exception inside the block rolls the
\* transaction back, the committed tables stay
AfterFailure(committed, seen) == committed

IngestInit ==
    /\ tracks_csv \in TrackCsvs
    /\ features_csv \in FeatureCsvs
    /\ chunk_size \in ChunkSizes
    /\ db \in {EmptyDb, OldDb}
    /\ db0 = db
    /\ tx = db
    /\ ipc = "idle"
    /\ song_rows = <<>>
    /\ feat_rows = <<>>
    /\ sent = 0

IngestIdle ==
    /\ tracks_csv = <<>>
    /\ features_csv = <<>>
    /\ chunk_size = CHUNK_SIZE
    /\ db = EmptyDb
    /\ db0 = EmptyDb
    /\ tx = EmptyDb
    /\ ipc = "idle"
    /\ song_rows = <<>>
    /\ feat_rows = <<>>
    /\ sent = 0

\* main, 1) to 4): read the CSV files, merge, build the rows
PrepareRows ==
    /\ ipc = "idle"
    /\ song_rows' = SongRows(Merged(tracks_csv, features_csv))
    /\ feat_rows' = FeatRows(Merged(tracks_csv, features_csv))
    /\ ipc' = "begin"
    /\ UNCHANGED <<tracks_csv, features_csv, chunk_size, db, db0, tx, sent>>
    /\ UNCHANGED <<buildVars, queryVars, extractVars>>

\* with ENGINE.begin() as conn: execute_sql(conn, SCHEMA_PATH); the schema
\* is idempotent and touches no row
BeginAndSchema ==
    /\ ipc = "begin"
    /\ tx' = db
    /\ ipc' = "truncate"
    /\ UNCHANGED <<tracks_csv, features_csv, chunk_size, db, db0, song_rows, feat_rows, sent>>
    /\ UNCHANGED <<buildVars, queryVars, extractVars>>

\* if RESET_TABLES: conn.execute(text("TRUNCATE songs CASCADE;"))
Truncate ==
    /\ ipc = "truncate"
    /\ tx' = TruncateCascade(tx)
    /\ ipc' = "songs"
    /\ UNCHANGED <<tracks_csv, features_csv, chunk_size, db, db0, song_rows, feat_rows, sent>>
    /\ UNCHANGED <<buildVars, queryVars, extractVars>>

\* for chunk in chunker(song_rows, CHUNK_SIZE): conn.execute(stmt, chunk)
UpsertSongs ==
    /\ ipc = "songs"
    /\ LET chunks == Chunker(song_rows, chunk_size)
           c == sent + 1
       IN IF c <= Len(chunks)
          THEN /\ tx' = [tx EXCEPT !.songs = Upsert(tx.songs, chunks[c])]
               /\ sent' = sent + 1
               /\ ipc' = ipc
          ELSE /\ ipc' = "features"
               /\ sent' = 0
               /\ tx' = tx
    /\ UNCHANGED <<tracks_csv, features_csv, chunk_size, db, db0, song_rows, feat_rows>>
    /\ UNCHANGED <<buildVars, queryVars, extractVars>>

\* for chunk in chunker(feat_rows, CHUNK_SIZE): conn.execute(text(...), chunk)
UpsertFeatures ==
    /\ ipc = "features"
    /\ LET chunks == Chunker(feat_rows, chunk_size)
           c == sent + 1
       IN IF c <= Len(chunks)
          THEN /\ tx' = [tx EXCEPT !.song_features = Upsert(tx.song_features, chunks[c])]
               /\ sent' = sent + 1
               /\ ipc' = ipc
          ELSE /\ ipc' = "commit"
               /\ sent' = 0
               /\ tx' = tx
    /\ UNCHANGED <<tracks_csv, features_csv, chunk_size, db, db0, song_rows, feat_rows>>
    /\ UNCHANGED <<buildVars, queryVars, extractVars>>

\* the with block ends without an exception: the transaction commits
Commit ==
    /\ ipc = "commit"
    /\ db' = tx
    /\ ipc' = "committed"
    /\ UNCHANGED <<tracks_csv, features_csv, chunk_size, db0, tx, song_rows, feat_rows, sent>>
    /\ UNCHANGED <<buildVars, queryVars, extractVars>>

\* a statement of the block raises: the exception leaves the with block
StatementFails ==
    /\ ipc \in {"begin", "truncate", "songs", "features", "commit"}
    /\ db' = AfterFailure(db, tx)
    /\ ipc' = "failed"
    /\ UNCHANGED <<tracks_csv, features_csv, chunk_size, db0, tx, song_rows, feat_rows, sent>>
    /\ UNCHANGED <<buildVars, queryVars, extractVars>>

IngestNext ==
    \/ PrepareRows
    \/ BeginAndSchema
    \/ Truncate
    \/ UpsertSongs
    \/ UpsertFeatures
    \/ Commit
    \/ StatementFails

\* --------------------------------------------------------- specifications
vars == <<buildVars, queryVars, extractVars, ingestVars>>

BuildIdle ==
    /\ rows = <<>>
    /\ files = EmptyDir
    /\ before = EmptyDir
    /\ gen = 0
    /\ cfg = PriorConfig
    /\ pc = "idle"
    /\ err = ""
    /\ track_ids = <<>>
    /\ X = <<>>
    /\ X_scaled = <<>>
    /\ scaler = Unset
    /\ pca = Unset
    /\ X_emb = <<>>
    /\ nn = Unset

ExtractIdle ==
    /\ h5_files = <<>>
    /\ epc = "idle"
    /\ visited = 0
    /\ processed = 0
    /\ skipped = 0
    /\ seen_ids = {}
    /\ temp_tracks = NoCsv
    /\ temp_features = NoCsv
    /\ out_tracks = NoCsv
    /\ out_features = NoCsv

\* build_index.py
Init == BuildInit /\ result = NoResult /\ ExtractIdle /\ IngestIdle
Next == BuildNext
Spec == Init /\ [][Next]_vars

\* build_index.py and queries of the index it saved
QuerySpec == Init /\ [][QueryNext]_vars

\* extract.py
InitExtract == BuildIdle /\ result = NoResult /\ ExtractInit /\ IngestIdle
ExtractSpec == InitExtract /\ [][ExtractNext]_vars

\* ingest.py
InitIngest == BuildIdle /\ result = NoResult /\ ExtractIdle /\ IngestInit
IngestSpec == InitIngest /\ [][IngestNext]_vars

\* ---------------------------------------------------------------- claims
Required == FileNames \ {"pca.pkl"}

\* every required artifact is there and all artifacts come from one run
Complete(fs) ==
    \E g \in 0..MaxBuilds :
        /\ \A f \in Required : fs[f] # Absent /\ fs[f].gen = g
        /\ fs["pca.pkl"] = Absent \/ fs["pca.pkl"].gen = g

\* the records the corpus is to keep: an id, a non-empty vector, and the
\* length of the first such vector
Usable(rs) == {i \in 1..Len(rs) : rs[i].tid # None /\ ~rs[i].features.isNone}
NonEmpty(rs) == {i \in Usable(rs) : Len(rs[i].features.v) >= 1}
EstablishedDim(rs) ==
    LET first == CHOOSE i \in NonEmpty(rs) : \A j \in NonEmpty(rs) : i <= j
    IN Len(rs[first].features.v)
IsValid(rs, i) == i \in NonEmpty(rs) /\ Len(rs[i].features.v) = EstablishedDim(rs)
RECURSIVE ValidFrom(_, _)
ValidFrom(rs, i) ==
    IF i > Len(rs) THEN <<>>
    ELSE (IF IsValid(rs, i) THEN <<rs[i]>> ELSE <<>>) \o ValidFrom(rs, i + 1)
ValidRecords(rs) == ValidFrom(rs, 1)

EmptyCorpus(rs) == Usable(rs) = {}
MixedDims(rs) ==
    \E i, j \in Usable(rs) : Len(rs[i].features.v) # Len(rs[j].features.v)

PastLoad == pc \in (Running \ {"load"}) \cup {"done", "aborted"}

\* C1: while a run writes over a published artifact set, what is on disk (what
\* a reader loading the files now gets) is a complete set of one run, never
\* a mix of files of the new run and files of the previous one.
C1_NoHalfWrittenSetVisible ==
    (pc \in Running /\ Complete(before)) => Complete(files)

\* C2: when a run is interrupted, the previously published artifact set is
\* still on disk, complete and unchanged.
C2_InterruptKeepsPublishedSet ==
    (pc = "crashed" /\ Complete(before)) => files = before

\* C3: after a completed run the set holds a reduction basis exactly when the
\* manifest says reduction was enabled; a run with reduction disabled leaves
\* no basis from an earlier run.
C3_BasisAgreesWithManifest ==
    pc = "done" =>
        ((files["pca.pkl"] # Absent) <=> files["config.json"].data.use_pca)

\* C4: loading skips every record with a null id, a null or empty vector or a
\* vector of another length than the established dimension; when a valid
\* record remains the load completes and the corpus is exactly the valid
\* records.
C4_LoadSkipsMalformedRecords ==
    (PastLoad /\ ValidRecords(rows) # <<>>) =>
        /\ err # "ValueError: vstack"
        /\ track_ids = [i \in 1..Len(ValidRecords(rows)) |-> ValidRecords(rows)[i].tid]
        /\ X = [i \in 1..Len(ValidRecords(rows)) |-> ValidRecords(rows)[i].features.v]

\* C5: with reduction enabled the run never rejects the component count: it
\* uses min(requested, d), the final dimension is that value, and the
\* manifest records the requested and the final value.
C5_ComponentsClampedNeverRejected ==
    cfg.use_pca =>
        /\ err # "ValueError: n_components"
        /\ pc = "done" =>
             LET m == files["config.json"].data IN
             /\ files["pca.pkl"].data.n_components = Min(cfg.requested, Len(X[1]))
             /\ m.final_dim = Min(cfg.requested, Len(X[1]))
             /\ m.pca_components_requested = cfg.requested

\* C6: no stored embedding has norm 0: normalizing a zero vector fails with
\* an error instead of storing it.
C6_NoZeroEmbeddingStored ==
    /\ pc \in {"knn"} => \A i \in 1..Len(X_emb) : NormSq(X_emb[i]) # 0
    /\ files["embeddings.npy"] # Absent =>
         \A i \in 1..Len(files["embeddings.npy"].data.rows) :
             NormSq(files["embeddings.npy"].data.rows[i]) # 0

\* C7: with an empty corpus, or vectors of different dimensions, the run
\* aborts with an error before any fit and no artifact file is created or
\* modified.
C7_BadCorpusAbortsBeforeFit ==
    (gen >= 1 /\ (EmptyCorpus(rows) \/ MixedDims(rows))) =>
        /\ pc \in {"load", "aborted", "crashed"}
        /\ pc = "aborted" => err = "ValueError: vstack"
        /\ scaler = Unset /\ X_scaled = <<>>
        /\ files = before

C7_Witness ==
    /\ pc = "aborted"
    /\ MixedDims(rows)
    /\ files = PriorSet

\* C8: after a completed run the saved id list and the saved embeddings have
\* the same length n, row i is the embedding of id i in the order loaded, and
\* the manifest has corpus size n, raw dimension d and the embeddings' width.
FeaturesOfId(rs, t) == rs[CHOOSE i \in Usable(rs) : rs[i].tid = t].features.v
IdsInOrder(rs, ids) ==
    \A a, b \in 1..Len(ids) :
        a < b => \E i, j \in Usable(rs) : i < j /\ rs[i].tid = ids[a] /\ rs[j].tid = ids[b]

C8_SavedSetDescribesCorpus ==
    pc = "done" =>
        LET ids == files["track_ids.npy"].data.ids
            E == files["embeddings.npy"].data.rows
            m == files["config.json"].data
            n == Cardinality(Usable(rows))
            sc == ScalerFit([i \in 1..n |-> FeaturesOfId(rows, ids[i])])
        IN /\ Len(ids) = n /\ Len(E) = n
           /\ {ids[i] : i \in 1..Len(ids)} = {rows[i].tid : i \in Usable(rows)}
           /\ IdsInOrder(rows, ids)
           /\ \A i \in 1..n :
                /\ E[i].v = ScalerTransform(sc, FeaturesOfId(rows, ids[i]))
                /\ E[i].width = m.final_dim
                /\ E[i].normalized
           /\ m.n_songs = n
           /\ \A i \in Usable(rows) : m.raw_dim = Len(rows[i].features.v)

C8_Witness ==
    /\ pc = "done"
    /\ before = PriorSet
    /\ Len(files["track_ids.npy"].data.ids) = 1
    /\ Len(rows) = 2

\* C9: a query of an index over n embeddings with k >= 0 returns exactly
\* min(k, n) results in non-decreasing distance, ties in id lexical order, no
\* id twice; a k larger than n is clamped, not refused.
IdRank(t) == CHOOSE i \in 1..Len(TrackIds) : TrackIds[i] = t

C9_QueryReturnsMinKN ==
    (pc = "done" /\ result.asked >= 0) =>
        LET n == Len(files["track_ids.npy"].data.ids)
            it == result.items
        IN /\ result.error = ""
           /\ Len(it) = Min(result.asked, n)
           /\ \A a, b \in 1..Len(it) :
                a < b =>
                  /\ it[a].id # it[b].id
                  /\ it[a].distance <= it[b].distance
                  /\ it[a].distance = it[b].distance => IdRank(it[a].id) < IdRank(it[b].id)

\* C10: extract.py main counts every visited file once, as processed or as
\* skipped, writes no track id twice, and publishes tracks.csv and
\* features.csv with the same track ids in the same order, one row each per
\* processed file.
RowIds(csv) == [i \in 1..Len(csv.rows) |-> csv.rows[i].track_id]
NoRepeat(seq) == \A a, b \in 1..Len(seq) : a # b => seq[a] # seq[b]
Extractable == {i \in 1..Len(h5_files) : ~h5_files[i].corrupt /\ h5_files[i].track_id # ""}

C10_ExtractCountsAndPairsRows ==
    /\ processed + skipped = visited
    /\ NoRepeat(RowIds(temp_tracks))
    /\ epc = "published" =>
         /\ visited = Len(h5_files)
         /\ out_tracks.exists /\ out_features.exists
         /\ RowIds(out_tracks) = RowIds(out_features)
         /\ NoRepeat(RowIds(out_tracks))
         /\ Len(out_tracks.rows) = processed
         /\ {out_tracks.rows[i].track_id : i \in 1..processed}
              = {h5_files[i].track_id : i \in Extractable}

C10_Witness ==
    /\ epc = "published"
    /\ processed = 1
    /\ skipped = 2
    /\ \E i \in 1..Len(h5_files) : h5_files[i].corrupt
    /\ Cardinality(Extractable) = 2

\* C11: ingest.py main runs the schema, the TRUNCATE and every chunked upsert
\* in one transaction: while it is open and when a statement fails at any
\* chunk the committed tables are those of before the run, and after a
\* successful run songs and song_features hold the same track ids, each once.
TableIds(table) == {r.track_id : r \in table}

====
